---- MODULE Spec2Model ----
(***************************************************************************)
(* Rule composition and code generation of the GEE platform.               *)
(*                                                                         *)
(* The relational store (SQLite, foreign keys not enforced: get_db never   *)
(* issues PRAGMA foreign_keys) is modelled table by table.  Every route    *)
(* handler is one action; each modify_db call commits on its own, and a    *)
(* handler running alone is the sequence of its statements.  SpecConcurrent*)
(* serves two requests side by side, one statement at a time.              *)
(*                                                                         *)
(* Python values:                                                          *)
(*   - a str is a sequence of tokens, concatenation is \o;                 *)
(*   - None, where a str is expected, is the reserved value NoneStr, which *)
(*     no input string equals;                                             *)
(*   - None, where a row id is expected, is 0: the handlers only test ids  *)
(*     for truthiness and no table has a row with id 0.                    *)
(***************************************************************************)
EXTENDS Integers, Sequences, FiniteSets, TLC

\* ------------------------------------------------------------------ bounds
\* Largest row id the model lets an INSERT allocate in GEE_RULE_LINES,
\* GEE_BASE_FUNCTIONS, GEE_RULES, GRG_RULE_GROUPS and GEE_FIELDS (which starts with
\* two fields), and the largest number of rows it lets GEE_BASE_FUNCTIONS_PARAMS hold.
MaxLineId == 2
MaxFunctionId == 2
MaxFunctionParams == 2
MaxRuleId == 2
MaxGroupId == 2
MaxFieldId == 3

\* ------------------------------------------------------------ Python values
None == 0
NoneStr == <<"<None>">>
EmptyStr == << >>

\* bool(x) of a row id or of None.
Truthy(x) == x # None

\* str(x) as an f-string formats it: None prints as the word None.
Format(s) == IF s = NoneStr THEN <<"None">> ELSE s

\* sep.join(parts) for a list of str.
RECURSIVE Join(_, _)
Join(parts, sep) ==
    IF parts = << >> THEN EmptyStr
    ELSE IF Len(parts) = 1 THEN parts[1]
    ELSE parts[1] \o sep \o Join(Tail(parts), sep)

\* ------------------------------------------------------------------- state
VARIABLES
    functions,     \* GEE_BASE_FUNCTIONS: GBF_ID -> [FUNC_NAME]
    funcParams,    \* GEE_BASE_FUNCTIONS_PARAMS: rows [GBF_ID, GBF_SEQ, PARAM_TYPE] in rowid order
    fields,        \* GEE_FIELDS: GF_ID -> [GF_NAME, GF_TYPE]
    rules,         \* GEE_RULES: RULE_ID -> [RULE_NAME, CONDITION_CODE, ACTION_CODE]
    ruleLines,     \* GEE_RULE_LINES: LINE_ID -> [RULE_ID, FUNCTION_ID, IS_CONDITION, SEQUENCE_NUM]
    lineParams,    \* GEE_RULE_LINE_PARAMS grouped by LINE_ID, each group in rowid order:
                   \*   LINE_ID -> rows [PARAM_INDEX, FIELD_ID, LITERAL_VALUE]
    ruleGroups,    \* GRG_RULE_GROUPS: GRG_ID -> [GRG_ID_PARENT, COND_GRG_ID_START, ACT_GRG_ID_START]
    groupRules,    \* GRG_RULE_GROUP_RULES grouped by GRG_ID, each group in rowid order:
                   \*   GRG_ID -> rows [RULE_ID, SEQUENCE]
    response,      \* the JSON body and status of the last request served
    audit,         \* history: what the last request deleted, whether it repeated a read
    inflight,      \* the requests being served statement by statement, one per worker
    refused        \* history: the deletes answered Conflict so far, as <<op, id>>

vars == <<functions, funcParams, fields, rules, ruleLines, lineParams,
          ruleGroups, groupRules, response, audit, inflight, refused>>

catalog == <<functions, funcParams, fields>>
groups == <<ruleGroups, groupRules>>

\* Row ids that may own parameter rows or membership rows (a request may name a line
\* or a group that does not exist).
LineKeys == 1 .. MaxLineId
GroupKeys == 1 .. MaxGroupId

\* cursor.lastrowid of an INSERT into a rowid table: one more than the largest rowid.
RECURSIVE MaxOf(_)
MaxOf(S) == IF S = {} THEN 0
            ELSE LET x == CHOOSE y \in S : TRUE
                     m == MaxOf(S \ {x})
                 IN IF x > m THEN x ELSE m

LastRowId(table) == MaxOf(DOMAIN table) + 1

\* The function f with key k removed (DELETE ... WHERE id = k).
Without(f, K) == [k \in (DOMAIN f) \ K |-> f[k]]

\* ---------------------------------------------------------------- responses
Resp(op, status, success, message, id) ==
    [op |-> op, status |-> status, success |-> success, message |-> message,
     id |-> id, conditionCode |-> NoneStr, actionCode |-> NoneStr]

\* History kept beside the store: the rule lines, the number of parameter rows and the
\* number of membership rows the last request deleted, and whether the last request
\* repeated the read before it.
NoAudit == [removedLines |-> {}, removedParams |-> 0, removedMembers |-> 0,
            repeat |-> FALSE]

\* The workers that serve requests side by side, and a worker serving nothing.  A
\* worker in a request holds the handler's locals: the handler (op), the statement it
\* runs next (pc), the id, function id and list of the request body, the index of the
\* next list entry to insert (next) and the usage count it read (count).  Two
\* entries are history: the function and parameter rows the line had when the request
\* began (before), whether another request on the same row ran meanwhile
\* (overlapped), and whether the function was in use when it was deleted (raced).
Procs == {1, 2}
Idle == [op |-> "idle", pc |-> "idle", id |-> None, function_id |-> None,
         list |-> << >>, next |-> 0, count |-> 0, before |-> << >>,
         overlapped |-> FALSE, raced |-> FALSE]

\* A handler that runs from its first statement to its response with no other request
\* in between leaves the workers as they were, and the refusals so far are not kept.
Serial == UNCHANGED <<inflight, refused>>

\* ------------------------------------------------------------ add_rule_line
\* enumerate(parameters) turned into GEE_RULE_LINE_PARAMS rows.
ParamRows(parameters) ==
    [i \in 1 .. Len(parameters) |->
        [PARAM_INDEX |-> i - 1,
         FIELD_ID |-> parameters[i].fieldId,
         LITERAL_VALUE |-> parameters[i].literalValue]]

\* add_rule_line without the check of the required identifiers.
add_rule_line_Unvalidated(rule_id, function_id, is_condition, sequence_num, parameters) ==
    LET line_id == LastRowId(ruleLines) IN
    /\ line_id <= MaxLineId
    /\ ruleLines' = [k \in (DOMAIN ruleLines) \cup {line_id} |->
                       IF k = line_id
                       THEN [RULE_ID |-> rule_id, FUNCTION_ID |-> function_id,
                             IS_CONDITION |-> IF is_condition THEN 1 ELSE 0,
                             SEQUENCE_NUM |-> sequence_num]
                       ELSE ruleLines[k]]
    /\ lineParams' = [lineParams EXCEPT ![line_id] = @ \o ParamRows(parameters)]
    /\ response' = Resp("add_rule_line", 200, TRUE,
                        "Rule line added successfully", line_id)
    /\ audit' = NoAudit
    /\ UNCHANGED <<catalog, rules, groups>>

add_rule_line(rule_id, function_id, is_condition, sequence_num, parameters) ==
    IF ~Truthy(rule_id) \/ ~Truthy(function_id)
    THEN /\ response' = Resp("add_rule_line", 400, FALSE,
                             "Rule ID and Function ID are required", None)
         /\ audit' = NoAudit
         /\ UNCHANGED <<catalog, rules, ruleLines, lineParams, groups>>
    ELSE LET line_id == LastRowId(ruleLines) IN
         /\ line_id <= MaxLineId
         /\ ruleLines' = [k \in (DOMAIN ruleLines) \cup {line_id} |->
                            IF k = line_id
                            THEN [RULE_ID |-> rule_id, FUNCTION_ID |-> function_id,
                                  IS_CONDITION |-> IF is_condition THEN 1 ELSE 0,
                                  SEQUENCE_NUM |-> sequence_num]
                            ELSE ruleLines[k]]
         /\ lineParams' = [lineParams EXCEPT ![line_id] = @ \o ParamRows(parameters)]
         /\ response' = Resp("add_rule_line", 200, TRUE,
                             "Rule line added successfully", line_id)
         /\ audit' = NoAudit
         /\ UNCHANGED <<catalog, rules, groups>>

\* --------------------------------------------------------- update_rule_line
\* UPDATE ... WHERE LINE_ID = ? touches no row when the line does not exist; the
\* DELETE and the INSERTs of the parameters run all the same.
\* update_rule_line whose UPDATE also sets the phase flag: the line becomes a condition.
update_rule_line_SetsPhase(line_id, function_id, sequence_num, parameters) ==
    IF ~Truthy(line_id) \/ ~Truthy(function_id)
    THEN /\ response' = Resp("update_rule_line", 400, FALSE,
                             "Line ID and Function ID are required", None)
         /\ audit' = NoAudit
         /\ UNCHANGED <<catalog, rules, ruleLines, lineParams, groups>>
    ELSE /\ ruleLines' = [k \in DOMAIN ruleLines |->
                            IF k = line_id
                            THEN [ruleLines[k] EXCEPT !.FUNCTION_ID = function_id,
                                                      !.SEQUENCE_NUM = sequence_num,
                                                      !.IS_CONDITION = 1]
                            ELSE ruleLines[k]]
         /\ lineParams' = [lineParams EXCEPT ![line_id] = ParamRows(parameters)]
         /\ response' = Resp("update_rule_line", 200, TRUE,
                             "Rule line updated successfully", line_id)
         /\ audit' = NoAudit
         /\ UNCHANGED <<catalog, rules, groups>>

update_rule_line(line_id, function_id, sequence_num, parameters) ==
    IF ~Truthy(line_id) \/ ~Truthy(function_id)
    THEN /\ response' = Resp("update_rule_line", 400, FALSE,
                             "Line ID and Function ID are required", None)
         /\ audit' = NoAudit
         /\ UNCHANGED <<catalog, rules, ruleLines, lineParams, groups>>
    ELSE /\ ruleLines' = [k \in DOMAIN ruleLines |->
                            IF k = line_id
                            THEN [ruleLines[k] EXCEPT !.FUNCTION_ID = function_id,
                                                      !.SEQUENCE_NUM = sequence_num]
                            ELSE ruleLines[k]]
         /\ lineParams' = [lineParams EXCEPT ![line_id] = ParamRows(parameters)]
         /\ response' = Resp("update_rule_line", 200, TRUE,
                             "Rule line updated successfully", line_id)
         /\ audit' = NoAudit
         /\ UNCHANGED <<catalog, rules, groups>>

\* --------------------------------------------------------- delete_rule_line
\* delete_rule_line without its first statement: the parameter rows stay.
delete_rule_line_LineOnly(line_id) ==
    /\ ruleLines' = Without(ruleLines, {line_id})
    /\ response' = Resp("delete_rule_line", 200, TRUE,
                        "Rule line deleted successfully", line_id)
    /\ audit' = [NoAudit EXCEPT !.removedLines = {line_id} \cap DOMAIN ruleLines]
    /\ UNCHANGED <<catalog, rules, lineParams, groups>>

delete_rule_line(line_id) ==
    /\ lineParams' = [lineParams EXCEPT ![line_id] = << >>]
    /\ ruleLines' = Without(ruleLines, {line_id})
    /\ response' = Resp("delete_rule_line", 200, TRUE,
                        "Rule line deleted successfully", line_id)
    /\ audit' = [NoAudit EXCEPT !.removedLines = {line_id} \cap DOMAIN ruleLines,
                                !.removedParams = Len(lineParams[line_id])]
    /\ UNCHANGED <<catalog, rules, groups>>

\* ------------------------------------------------------------ generate_code
\* The ids of a set of rows in rowid order (the scan order of the table).
RECURSIVE ScanOrder(_)
ScanOrder(S) ==
    IF S = {} THEN << >>
    ELSE LET m == MaxOf(S) IN ScanOrder(S \ {m}) \o <<m>>

\* ORDER BY rl.IS_CONDITION DESC, rl.SEQUENCE_NUM ASC.
LineBefore(a, b) ==
    \/ ruleLines[a].IS_CONDITION > ruleLines[b].IS_CONDITION
    \/ /\ ruleLines[a].IS_CONDITION = ruleLines[b].IS_CONDITION
       /\ ruleLines[a].SEQUENCE_NUM < ruleLines[b].SEQUENCE_NUM

\* InsertLine with a sorter whose tie order depends on what ran before: on a read that
\* follows a read, a row goes before the rows it ties with.
RECURSIVE InsertLine_TiesFlipOnReread(_, _)
InsertLine_TiesFlipOnReread(s, x) ==
    IF s = << >> THEN <<x>>
    ELSE IF \/ LineBefore(x, Head(s))
            \/ (response.op = "generate_code" /\ ~LineBefore(Head(s), x))
         THEN <<x>> \o s
    ELSE <<Head(s)>> \o InsertLine_TiesFlipOnReread(Tail(s), x)

\* The sorter is stable: a row goes after the rows it ties with, so ties keep scan order.
RECURSIVE InsertLine(_, _)
InsertLine(s, x) ==
    IF s = << >> THEN <<x>>
    ELSE IF LineBefore(x, Head(s)) THEN <<x>> \o s
    ELSE <<Head(s)>> \o InsertLine(Tail(s), x)

RECURSIVE OrderLines(_)
OrderLines(s) ==
    IF s = << >> THEN << >>
    ELSE InsertLine(OrderLines(SubSeq(s, 1, Len(s) - 1)), s[Len(s)])

\* The first query of generate_code: the rule's lines joined (inner) to their function.
LinesQuery(rule_id) ==
    OrderLines(ScanOrder({l \in DOMAIN ruleLines :
                             /\ ruleLines[l].RULE_ID = rule_id
                             /\ ruleLines[l].FUNCTION_ID \in DOMAIN functions}))

\* ORDER BY rlp.PARAM_INDEX ASC, stable as above.
RECURSIVE InsertParam(_, _)
InsertParam(s, x) ==
    IF s = << >> THEN <<x>>
    ELSE IF x.PARAM_INDEX < Head(s).PARAM_INDEX THEN <<x>> \o s
    ELSE <<Head(s)>> \o InsertParam(Tail(s), x)

RECURSIVE OrderParams(_)
OrderParams(s) ==
    IF s = << >> THEN << >>
    ELSE InsertParam(OrderParams(SubSeq(s, 1, Len(s) - 1)), s[Len(s)])

\* The second query: the line's parameters LEFT JOINed to GEE_FIELDS.
ParamsQuery(line_id) ==
    LET rows == OrderParams(lineParams[line_id]) IN
    [i \in 1 .. Len(rows) |->
        [PARAM_INDEX |-> rows[i].PARAM_INDEX,
         FIELD_ID |-> rows[i].FIELD_ID,
         LITERAL_VALUE |-> rows[i].LITERAL_VALUE,
         GF_NAME |-> IF rows[i].FIELD_ID \in DOMAIN fields
                     THEN fields[rows[i].FIELD_ID].GF_NAME ELSE NoneStr,
         GF_TYPE |-> IF rows[i].FIELD_ID \in DOMAIN fields
                     THEN fields[rows[i].FIELD_ID].GF_TYPE ELSE NoneStr]]

\* ParamValue quoting every literal, whatever the type.
ParamValue_QuotesEveryLiteral(param) ==
    IF Truthy(param.FIELD_ID)
    THEN <<"fields.">> \o Format(param.GF_NAME)
    ELSE <<"'">> \o Format(param.LITERAL_VALUE) \o <<"'">>

\* One element of param_values.
ParamValue(param) ==
    IF Truthy(param.FIELD_ID)
    THEN <<"fields.">> \o Format(param.GF_NAME)
    ELSE IF param.GF_TYPE = <<"STRING">>
         THEN <<"'">> \o Format(param.LITERAL_VALUE) \o <<"'">>
         ELSE param.LITERAL_VALUE

ParamValues(line_id) ==
    LET params == ParamsQuery(line_id) IN
    [i \in 1 .. Len(params) |-> ParamValue(params[i])]

\* ', '.join raises TypeError when an element is None.
JoinRaises(values) == \E i \in 1 .. Len(values) : values[i] = NoneStr

FuncCall(line_id) ==
    functions[ruleLines[line_id].FUNCTION_ID].FUNC_NAME
        \o <<"(">> \o Join(ParamValues(line_id), <<", ">>) \o <<");">>

\* The statements of the lines of one phase, in query order.
PhaseCalls(lines, phase) ==
    LET sel == SelectSeq(lines, LAMBDA l : ruleLines[l].IS_CONDITION = phase) IN
    [i \in 1 .. Len(sel) |-> FuncCall(sel[i])]

\* Block answering null for a phase without statements.
Block_NullWhenEmpty(calls) ==
    IF calls = << >> THEN NoneStr ELSE Join(calls, <<"\n">>)

\* "\n".join(condition_code), "\n".join(action_code).
Block(calls) == Join(calls, <<"\n">>)

GenerateCode(rule_id) ==
    LET lines == LinesQuery(rule_id) IN
    IF lines = << >>
    THEN [status |-> 200, conditionCode |-> EmptyStr, actionCode |-> EmptyStr]
    ELSE IF \E i \in 1 .. Len(lines) : JoinRaises(ParamValues(lines[i]))
    THEN [status |-> 500, conditionCode |-> NoneStr, actionCode |-> NoneStr]
    ELSE [status |-> 200,
          conditionCode |-> Block(PhaseCalls(lines, 1)),
          actionCode |-> Block(PhaseCalls(lines, 0))]

\* generate_code saving what it generated on the rule.
generate_code_StoresCode(rule_id) ==
    LET out == GenerateCode(rule_id) IN
    /\ response' = [op |-> "generate_code", status |-> out.status,
                    success |-> out.status = 200,
                    message |-> IF out.status = 200 THEN "" ELSE "error",
                    id |-> rule_id,
                    conditionCode |-> out.conditionCode,
                    actionCode |-> out.actionCode]
    /\ audit' = [NoAudit EXCEPT !.repeat =
                    response.op = "generate_code" /\ response.id = rule_id]
    /\ rules' = [k \in DOMAIN rules |->
                    IF k = rule_id
                    THEN [rules[k] EXCEPT !.CONDITION_CODE = out.conditionCode,
                                          !.ACTION_CODE = out.actionCode]
                    ELSE rules[k]]
    /\ UNCHANGED <<catalog, ruleLines, lineParams, groups>>

generate_code(rule_id) ==
    LET out == GenerateCode(rule_id) IN
    /\ response' = [op |-> "generate_code", status |-> out.status,
                    success |-> out.status = 200,
                    message |-> IF out.status = 200 THEN "" ELSE "error",
                    id |-> rule_id,
                    conditionCode |-> out.conditionCode,
                    actionCode |-> out.actionCode]
    /\ audit' = [NoAudit EXCEPT !.repeat =
                    response.op = "generate_code" /\ response.id = rule_id]
    /\ UNCHANGED <<catalog, rules, ruleLines, lineParams, groups>>

\* --------------------------------------------------- functions and their guard
\* FUNC_NAME is UNIQUE: a second function of the same name is rejected by the store.
add_function(function_name) ==
    IF \E f \in DOMAIN functions : functions[f].FUNC_NAME = function_name
    THEN /\ response' = Resp("add_function", 200, FALSE, "UNIQUE constraint failed", None)
         /\ audit' = NoAudit
         /\ UNCHANGED <<catalog, rules, ruleLines, lineParams, groups>>
    ELSE LET gbf_id == LastRowId(functions) IN
         /\ gbf_id <= MaxFunctionId
         /\ functions' = [k \in (DOMAIN functions) \cup {gbf_id} |->
                            IF k = gbf_id THEN [FUNC_NAME |-> function_name]
                            ELSE functions[k]]
         /\ response' = Resp("add_function", 200, TRUE,
                             "Function added successfully!", None)
         /\ audit' = NoAudit
         /\ UNCHANGED <<funcParams, fields, rules, ruleLines, lineParams, groups>>

add_function_parameter(gbf_id, sequence, param_type) ==
    /\ Len(funcParams) < MaxFunctionParams
    /\ funcParams' = Append(funcParams, [GBF_ID |-> gbf_id, GBF_SEQ |-> sequence,
                                         PARAM_TYPE |-> param_type])
    /\ response' = Resp("add_function_parameter", 200, TRUE,
                        "Parameter added successfully!", None)
    /\ audit' = NoAudit
    /\ UNCHANGED <<functions, fields, rules, ruleLines, lineParams, groups>>

\* SELECT COUNT(*) FROM GEE_RULE_LINES WHERE FUNCTION_ID = ?
FunctionUsages(function_id) ==
    Cardinality({l \in DOMAIN ruleLines : ruleLines[l].FUNCTION_ID = function_id})

\* delete_function without the usage check.
delete_function_Unguarded(function_id) ==
    /\ funcParams' = SelectSeq(funcParams, LAMBDA p : p.GBF_ID # function_id)
    /\ functions' = Without(functions, {function_id})
    /\ response' = Resp("delete_function", 200, TRUE,
                        "Function deleted successfully!", function_id)
    /\ audit' = NoAudit
    /\ UNCHANGED <<fields, rules, ruleLines, lineParams, groups>>

\* delete_function that goes on refusing a function it has refused before.
delete_function_RefusalSticks(function_id) ==
    IF FunctionUsages(function_id) > 0 \/ <<"delete_function", function_id>> \in refused
    THEN /\ response' = Resp("delete_function", 200, FALSE,
                "Cannot delete function: It is being used in one or more rules",
                function_id)
         /\ audit' = NoAudit
         /\ UNCHANGED <<catalog, rules, ruleLines, lineParams, groups>>
    ELSE /\ funcParams' = SelectSeq(funcParams, LAMBDA p : p.GBF_ID # function_id)
         /\ functions' = Without(functions, {function_id})
         /\ response' = Resp("delete_function", 200, TRUE,
                             "Function deleted successfully!", function_id)
         /\ audit' = NoAudit
         /\ UNCHANGED <<fields, rules, ruleLines, lineParams, groups>>

delete_function(function_id) ==
    IF FunctionUsages(function_id) > 0
    THEN /\ response' = Resp("delete_function", 200, FALSE,
                "Cannot delete function: It is being used in one or more rules",
                function_id)
         /\ audit' = NoAudit
         /\ UNCHANGED <<catalog, rules, ruleLines, lineParams, groups>>
    ELSE /\ funcParams' = SelectSeq(funcParams, LAMBDA p : p.GBF_ID # function_id)
         /\ functions' = Without(functions, {function_id})
         /\ response' = Resp("delete_function", 200, TRUE,
                             "Function deleted successfully!", function_id)
         /\ audit' = NoAudit
         /\ UNCHANGED <<fields, rules, ruleLines, lineParams, groups>>

\* ------------------------------------------------------ rules and their guard
add_rule(rule_name, condition_code, action_code) ==
    IF rule_name = NoneStr \/ rule_name = EmptyStr
    THEN /\ response' = Resp("add_rule", 400, FALSE, "Rule name is required", None)
         /\ audit' = NoAudit
         /\ UNCHANGED <<catalog, rules, ruleLines, lineParams, groups>>
    ELSE LET rule_id == LastRowId(rules) IN
         /\ rule_id <= MaxRuleId
         /\ rules' = [k \in (DOMAIN rules) \cup {rule_id} |->
                        IF k = rule_id
                        THEN [RULE_NAME |-> rule_name, CONDITION_CODE |-> condition_code,
                              ACTION_CODE |-> action_code]
                        ELSE rules[k]]
         /\ response' = Resp("add_rule", 200, TRUE, "Rule added successfully", rule_id)
         /\ audit' = NoAudit
         /\ UNCHANGED <<catalog, ruleLines, lineParams, groups>>

\* SELECT COUNT(*) FROM GRG_RULE_GROUP_RULES WHERE RULE_ID = ?
RuleUsages(rule_id) ==
    LET Count(g) == Len(SelectSeq(groupRules[g], LAMBDA m : m.RULE_ID = rule_id))
        sum[S \in SUBSET GroupKeys] ==
            IF S = {} THEN 0
            ELSE LET g == CHOOSE x \in S : TRUE IN Count(g) + sum[S \ {g}]
    IN sum[GroupKeys]

\* The number of rows in the groups of a grouped table that are keyed by K.
RowsOf(table, K) ==
    LET sum[S \in SUBSET K] ==
            IF S = {} THEN 0
            ELSE LET k == CHOOSE x \in S : TRUE IN Len(table[k]) + sum[S \ {k}]
    IN sum[K]

\* delete_rule without the rule-group usage check.
delete_rule_Unguarded(rule_id) ==
    IF rule_id \notin DOMAIN rules
    THEN /\ response' = Resp("delete_rule", 404, FALSE, "Rule not found", rule_id)
         /\ audit' = NoAudit
         /\ UNCHANGED <<catalog, rules, ruleLines, lineParams, groups>>
    ELSE LET owned == {l \in DOMAIN ruleLines : ruleLines[l].RULE_ID = rule_id} IN
         /\ lineParams' = [l \in LineKeys |->
                              IF l \in owned THEN << >> ELSE lineParams[l]]
         /\ ruleLines' = Without(ruleLines, owned)
         /\ rules' = Without(rules, {rule_id})
         /\ response' = Resp("delete_rule", 200, TRUE, "Rule deleted successfully",
                             rule_id)
         /\ audit' = [NoAudit EXCEPT !.removedLines = owned,
                                     !.removedParams = RowsOf(lineParams, owned)]
         /\ UNCHANGED <<catalog, groups>>

\* delete_rule without its first DELETE: the parameter rows of the rule's lines stay.
delete_rule_LinesOnly(rule_id) ==
    IF rule_id \notin DOMAIN rules
    THEN /\ response' = Resp("delete_rule", 404, FALSE, "Rule not found", rule_id)
         /\ audit' = NoAudit
         /\ UNCHANGED <<catalog, rules, ruleLines, lineParams, groups>>
    ELSE IF RuleUsages(rule_id) > 0
    THEN /\ response' = Resp("delete_rule", 400, FALSE,
                "Cannot delete rule: It is being used in rule groups", rule_id)
         /\ audit' = NoAudit
         /\ UNCHANGED <<catalog, rules, ruleLines, lineParams, groups>>
    ELSE LET owned == {l \in DOMAIN ruleLines : ruleLines[l].RULE_ID = rule_id} IN
         /\ ruleLines' = Without(ruleLines, owned)
         /\ rules' = Without(rules, {rule_id})
         /\ response' = Resp("delete_rule", 200, TRUE, "Rule deleted successfully",
                             rule_id)
         /\ audit' = [NoAudit EXCEPT !.removedLines = owned]
         /\ UNCHANGED <<catalog, lineParams, groups>>

delete_rule(rule_id) ==
    IF rule_id \notin DOMAIN rules
    THEN /\ response' = Resp("delete_rule", 404, FALSE, "Rule not found", rule_id)
         /\ audit' = NoAudit
         /\ UNCHANGED <<catalog, rules, ruleLines, lineParams, groups>>
    ELSE IF RuleUsages(rule_id) > 0
    THEN /\ response' = Resp("delete_rule", 400, FALSE,
                "Cannot delete rule: It is being used in rule groups", rule_id)
         /\ audit' = NoAudit
         /\ UNCHANGED <<catalog, rules, ruleLines, lineParams, groups>>
    ELSE LET owned == {l \in DOMAIN ruleLines : ruleLines[l].RULE_ID = rule_id} IN
         /\ lineParams' = [l \in LineKeys |->
                              IF l \in owned THEN << >> ELSE lineParams[l]]
         /\ ruleLines' = Without(ruleLines, owned)
         /\ rules' = Without(rules, {rule_id})
         /\ response' = Resp("delete_rule", 200, TRUE, "Rule deleted successfully",
                             rule_id)
         /\ audit' = [NoAudit EXCEPT !.removedLines = owned,
                                     !.removedParams = RowsOf(lineParams, owned)]
         /\ UNCHANGED <<catalog, groups>>

\* ------------------------------------------------------------- rule groups
\* The GRG_RULE_GROUP_RULES rows inserted for the rules list of a request.
MembershipRows(rule_list) ==
    [i \in 1 .. Len(rule_list) |->
        [RULE_ID |-> rule_list[i].id, SEQUENCE |-> rule_list[i].sequence]]

\* GroupRow that keeps a group reference in the start columns: the parent's id where
\* the flag is set.
GroupRow_StoresGroupId(group_name, cond_type, parent_group_id, is_condition, is_action) ==
    [GROUP_NAME |-> group_name, COND_TYPE |-> cond_type,
     GRG_ID_PARENT |-> parent_group_id,
     COND_GRG_ID_START |-> IF is_condition THEN parent_group_id ELSE 0,
     ACT_GRG_ID_START |-> IF is_action THEN parent_group_id ELSE 0]

GroupRow(group_name, cond_type, parent_group_id, is_condition, is_action) ==
    [GROUP_NAME |-> group_name, COND_TYPE |-> cond_type,
     GRG_ID_PARENT |-> parent_group_id,
     COND_GRG_ID_START |-> IF is_condition THEN 1 ELSE 0,
     ACT_GRG_ID_START |-> IF is_action THEN 1 ELSE 0]

add_rule_group(group_name, cond_type, parent_group_id, is_condition, is_action, rule_list) ==
    IF group_name = NoneStr \/ group_name = EmptyStr
    THEN /\ response' = Resp("add_rule_group", 400, FALSE, "Group name is required", None)
         /\ audit' = NoAudit
         /\ UNCHANGED <<catalog, rules, ruleLines, lineParams, groups>>
    ELSE LET grg_id == LastRowId(ruleGroups) IN
         /\ grg_id <= MaxGroupId
         /\ ruleGroups' = [k \in (DOMAIN ruleGroups) \cup {grg_id} |->
                             IF k = grg_id
                             THEN GroupRow(group_name, cond_type, parent_group_id,
                                           is_condition, is_action)
                             ELSE ruleGroups[k]]
         /\ groupRules' = [groupRules EXCEPT ![grg_id] = @ \o MembershipRows(rule_list)]
         /\ response' = Resp("add_rule_group", 200, TRUE,
                             "Rule group added successfully", grg_id)
         /\ audit' = NoAudit
         /\ UNCHANGED <<catalog, rules, ruleLines, lineParams>>

\* update_rule_group without the DELETE of the existing memberships.
update_rule_group_Appends(grg_id, group_name, cond_type, parent_group_id, is_condition, is_action, rule_list) ==
    /\ Truthy(grg_id)
    /\ ruleGroups' = [k \in DOMAIN ruleGroups |->
                        IF k = grg_id
                        THEN GroupRow(group_name, cond_type, parent_group_id,
                                      is_condition, is_action)
                        ELSE ruleGroups[k]]
    /\ Len(groupRules[grg_id]) + Len(rule_list) <= 4
    /\ groupRules' = [groupRules EXCEPT ![grg_id] = @ \o MembershipRows(rule_list)]
    /\ response' = Resp("update_rule_group", 200, TRUE,
                        "Rule group updated successfully", grg_id)
    /\ audit' = NoAudit
    /\ UNCHANGED <<catalog, rules, ruleLines, lineParams>>

\* As in update_rule_line, the UPDATE touches no row when the group does not exist and
\* the DELETE and the INSERTs of the memberships run all the same.
update_rule_group(grg_id, group_name, cond_type, parent_group_id, is_condition, is_action, rule_list) ==
    IF ~Truthy(grg_id)
    THEN /\ response' = Resp("update_rule_group", 400, FALSE, "Group ID is required", None)
         /\ audit' = NoAudit
         /\ UNCHANGED <<catalog, rules, ruleLines, lineParams, groups>>
    ELSE IF group_name = NoneStr \/ group_name = EmptyStr
    THEN /\ response' = Resp("update_rule_group", 400, FALSE, "Group name is required",
                             grg_id)
         /\ audit' = NoAudit
         /\ UNCHANGED <<catalog, rules, ruleLines, lineParams, groups>>
    ELSE /\ ruleGroups' = [k \in DOMAIN ruleGroups |->
                             IF k = grg_id
                             THEN GroupRow(group_name, cond_type, parent_group_id,
                                           is_condition, is_action)
                             ELSE ruleGroups[k]]
         /\ groupRules' = [groupRules EXCEPT ![grg_id] = MembershipRows(rule_list)]
         /\ response' = Resp("update_rule_group", 200, TRUE,
                             "Rule group updated successfully", grg_id)
         /\ audit' = [NoAudit EXCEPT !.removedMembers = Len(groupRules[grg_id])]
         /\ UNCHANGED <<catalog, rules, ruleLines, lineParams>>

delete_rule_group(grg_id) ==
    IF grg_id \notin DOMAIN ruleGroups
    THEN /\ response' = Resp("delete_rule_group", 404, FALSE, "Rule group not found",
                             grg_id)
         /\ audit' = NoAudit
         /\ UNCHANGED <<catalog, rules, ruleLines, lineParams, groups>>
    ELSE /\ groupRules' = [groupRules EXCEPT ![grg_id] = << >>]
         /\ ruleGroups' = Without(ruleGroups, {grg_id})
         /\ response' = Resp("delete_rule_group", 200, TRUE,
                             "Rule group deleted successfully", grg_id)
         /\ audit' = [NoAudit EXCEPT !.removedMembers = Len(groupRules[grg_id])]
         /\ UNCHANGED <<catalog, rules, ruleLines, lineParams>>

\* ------------------------------------------------------------------ fields
\* INSERT INTO GEE_FIELDS: the new field takes the next rowid.
add_field(field_name, type) ==
    LET gf_id == LastRowId(fields) IN
    /\ gf_id <= MaxFieldId
    /\ fields' = [k \in (DOMAIN fields) \cup {gf_id} |->
                     IF k = gf_id THEN [GF_NAME |-> field_name, GF_TYPE |-> type]
                     ELSE fields[k]]
    /\ response' = Resp("add_field", 200, TRUE, "Field added successfully!", None)
    /\ audit' = NoAudit
    /\ UNCHANGED <<functions, funcParams, rules, ruleLines, lineParams, groups>>

\* DELETE FROM GEE_FIELDS WHERE GF_ID = ?, with no look at the parameters using it.
delete_field(gf_id) ==
    /\ fields' = Without(fields, {gf_id})
    /\ response' = Resp("delete_field", 200, TRUE, "Field deleted successfully!", gf_id)
    /\ audit' = NoAudit
    /\ UNCHANGED <<functions, funcParams, rules, ruleLines, lineParams, groups>>

\* ------------------------------------------------- catalog the rules draw on
FuncIsAdult == [FUNC_NAME |-> <<"isAdult">>]
FuncApprove == [FUNC_NAME |-> <<"approve">>]
FieldAge == [GF_NAME |-> <<"age">>, GF_TYPE |-> <<"INTEGER">>]
FieldTier == [GF_NAME |-> <<"tier">>, GF_TYPE |-> <<"STRING">>]

RuleCheckAge == [RULE_NAME |-> <<"CheckAge">>, CONDITION_CODE |-> NoneStr,
                 ACTION_CODE |-> NoneStr]
RuleCheckTier == [RULE_NAME |-> <<"CheckTier">>, CONDITION_CODE |-> NoneStr,
                  ACTION_CODE |-> NoneStr]

\* One element of the parameters list of a request.
Param(field_id, literal) == [fieldId |-> field_id, literalValue |-> literal]

\* A store in which two functions (isAdult with an INTEGER parameter, approve with a
\* STRING parameter), two fields and two rules have been created, and no rule line yet.
\* Function 3 and field 3 do not exist.
Init ==
    /\ functions = (1 :> FuncIsAdult) @@ (2 :> FuncApprove)
    /\ funcParams = << [GBF_ID |-> 1, GBF_SEQ |-> 0, PARAM_TYPE |-> <<"INTEGER">>],
                       [GBF_ID |-> 2, GBF_SEQ |-> 0, PARAM_TYPE |-> <<"STRING">>] >>
    /\ fields = (1 :> FieldAge) @@ (2 :> FieldTier)
    /\ rules = (1 :> RuleCheckAge) @@ (2 :> RuleCheckTier)
    /\ ruleLines = << >>
    /\ lineParams = [l \in LineKeys |-> << >>]
    /\ ruleGroups = << >>
    /\ groupRules = [g \in GroupKeys |-> << >>]
    /\ response = Resp("init", 200, TRUE, "", None)
    /\ audit = NoAudit
    /\ inflight = [p \in Procs |-> Idle]
    /\ refused = {}

\* ------------------------------------------- Spec: the lines of two rules
\* Rule 1 takes lines of either phase, at sequence 0 or 1, calling function 1, 2 or the
\* missing function 3, and its lines are edited.  Rule 2 stands for the other rules of
\* the store: it takes action lines calling approve at sequence 0.  Every line carries
\* a field parameter and a literal one.
RuleIdInputs == {1, 2}
FunctionIdInputs == {1, 2, 3}
SequenceInputs == {0, 1}
ParameterInputs == { <<Param(1, NoneStr), Param(None, <<"gold">>)>> }

AddRuleLine ==
    \/ \E f \in FunctionIdInputs, c \in BOOLEAN, s \in SequenceInputs,
          ps \in ParameterInputs :
           add_rule_line(1, f, c, s, ps)
    \/ \E ps \in ParameterInputs : add_rule_line(2, 2, FALSE, 0, ps)

UpdateRuleLine ==
    \E l \in {k \in DOMAIN ruleLines : ruleLines[k].RULE_ID = 1},
       f \in FunctionIdInputs, s \in SequenceInputs, ps \in ParameterInputs :
        update_rule_line(l, f, s, ps)

DeleteRuleLine == \E l \in LineKeys : delete_rule_line(l)

GenerateCodeStep == \E r \in RuleIdInputs : generate_code(r)

Next ==
    \/ AddRuleLine /\ Serial
    \/ UpdateRuleLine /\ Serial
    \/ DeleteRuleLine /\ Serial
    \/ GenerateCodeStep /\ Serial

Spec == Init /\ [][Next]_vars

\* ------------------------------- SpecArgs: the parameters of the lines of rule 1
\* Condition lines calling isAdult and action lines calling approve, at sequence 0 of
\* rule 1, with every shape of parameter list: a field reference, a literal, both,
\* neither, a reference to the missing field 3, and a two-parameter list.  An update
\* replaces the parameters of a line and keeps its function.  Rule 2 is only read.
ArgsFunctionIdInputs == {1, 2}
ArgsParameterInputs ==
    { <<Param(1, NoneStr)>>,
      <<Param(None, <<"gold">>)>>,
      <<Param(2, <<"gold">>)>>,
      <<Param(None, NoneStr)>>,
      <<Param(3, <<"gold">>)>>,
      <<Param(1, <<"gold">>), Param(None, <<"42">>)>> }

ArgsAddRuleLine ==
    \E f \in ArgsFunctionIdInputs, ps \in ArgsParameterInputs :
        add_rule_line(1, f, f = 1, 0, ps)

ArgsUpdateRuleLine ==
    \E l \in DOMAIN ruleLines, ps \in ArgsParameterInputs :
        update_rule_line(l, ruleLines[l].FUNCTION_ID, 0, ps)

NextArgs ==
    \/ ArgsAddRuleLine /\ Serial
    \/ ArgsUpdateRuleLine /\ Serial
    \/ DeleteRuleLine /\ Serial
    \/ GenerateCodeStep /\ Serial

SpecArgs == Init /\ [][NextArgs]_vars

\* ---------------------------------- SpecCatalog: functions and the lines using them
\* The store as init_db leaves it: every table the handlers above use is empty (init_db
\* seeds only GRG_RULES, which none of them reads).
InitEmpty ==
    /\ functions = << >>
    /\ funcParams = << >>
    /\ fields = << >>
    /\ rules = << >>
    /\ ruleLines = << >>
    /\ lineParams = [l \in LineKeys |-> << >>]
    /\ ruleGroups = << >>
    /\ groupRules = [g \in GroupKeys |-> << >>]
    /\ response = Resp("init", 200, TRUE, "", None)
    /\ audit = NoAudit
    /\ inflight = [p \in Procs |-> Idle]
    /\ refused = {}

FunctionKeys == 1 .. MaxFunctionId

CatAddFunction == \E n \in {<<"isAdult">>, <<"approve">>} : add_function(n)

\* Parameters are declared for stored functions.
CatAddFunctionParameter ==
    \E f \in DOMAIN functions : add_function_parameter(f, 0, <<"STRING">>)

CatDeleteFunction == \E f \in FunctionKeys : delete_function(f)

CatAddRuleLine == \E f \in FunctionKeys : add_rule_line(1, f, TRUE, 0, << >>)

CatUpdateRuleLine ==
    \E l \in DOMAIN ruleLines, f \in FunctionKeys : update_rule_line(l, f, 0, << >>)

NextCatalog ==
    \/ CatAddFunction /\ Serial
    \/ CatAddFunctionParameter /\ Serial
    \/ CatDeleteFunction /\ Serial
    \/ CatAddRuleLine /\ Serial
    \/ CatUpdateRuleLine /\ Serial
    \/ DeleteRuleLine /\ Serial

SpecCatalog == InitEmpty /\ [][NextCatalog]_vars

\* ------------------------------------------- SpecGroups: groups and their members
\* Membership lists of a request: none, rule 1 at 0 then rule 2 at 1, rule 2 at 0.
Member(rule_id, sequence) == [id |-> rule_id, sequence |-> sequence]
MembershipInputs ==
    { << >>, <<Member(1, 0), Member(2, 1)>>, <<Member(2, 0)>> }

GrpAddRuleGroup ==
    \E ms \in MembershipInputs :
        add_rule_group(<<"Adults">>, <<"AND">>, None, TRUE, FALSE, ms)

GrpUpdateRuleGroup ==
    \E g \in GroupKeys, ms \in MembershipInputs :
        update_rule_group(g, <<"Adults">>, <<"AND">>, None, TRUE, FALSE, ms)

GrpDeleteRuleGroup == \E g \in GroupKeys : delete_rule_group(g)

NextGroups ==
    \/ GrpAddRuleGroup /\ Serial
    \/ GrpUpdateRuleGroup /\ Serial
    \/ GrpDeleteRuleGroup /\ Serial

SpecGroups == InitEmpty /\ [][NextGroups]_vars

\* ------------------------------ SpecRules: rules with lines, and the groups using them
\* Rules are created and deleted and get lines with one literal parameter; groups are
\* created with rule 1 and rule 2, or with rule 2 alone, as members, and deleted.
RuleKeys == 1 .. MaxRuleId

RulAddRule == add_rule(<<"CheckAge">>, NoneStr, NoneStr)

RulDeleteRule == \E r \in RuleKeys : delete_rule(r)

RulAddRuleLine ==
    \E r \in RuleIdInputs : add_rule_line(r, 1, TRUE, 0, <<Param(None, <<"gold">>)>>)

RulAddRuleGroup ==
    \E ms \in MembershipInputs \ {<< >>} :
        add_rule_group(<<"Adults">>, <<"AND">>, None, TRUE, FALSE, ms)

NextRules ==
    \/ RulAddRule /\ Serial
    \/ RulDeleteRule /\ Serial
    \/ RulAddRuleLine /\ Serial
    \/ RulAddRuleGroup /\ Serial
    \/ GrpDeleteRuleGroup /\ Serial

SpecRules == InitEmpty /\ [][NextRules]_vars

\* ---------------------- SpecLines: writes of lines, with and without their identifiers
\* Requests as any client may send them: add_rule_line with or without a rule id and a
\* function id, update_rule_line and delete_rule_line for any line id, stored or not,
\* update_rule_line also without a line id or a function id, and delete_rule.
LinRuleIdInputs == {None, 1}
LinFunctionIdInputs == {None, 1}
LinLineIdInputs == {None} \cup LineKeys
LinParameterInputs ==
    { <<Param(1, NoneStr)>>, <<Param(None, <<"gold">>), Param(2, NoneStr)>> }

LinAddRuleLine ==
    \E r \in LinRuleIdInputs, f \in LinFunctionIdInputs, ps \in LinParameterInputs :
        add_rule_line(r, f, TRUE, 0, ps)

LinUpdateRuleLine ==
    \E l \in LinLineIdInputs, f \in LinFunctionIdInputs, ps \in LinParameterInputs :
        update_rule_line(l, f, 0, ps)

NextLines ==
    \/ LinAddRuleLine /\ Serial
    \/ LinUpdateRuleLine /\ Serial
    \/ DeleteRuleLine /\ Serial
    \/ RulDeleteRule /\ Serial

SpecLines == Init /\ [][NextLines]_vars

\* ------------------------------ SpecSequence: membership lists and their sequence values
\* Groups written with the list rule 1 at 0, rule 2 at 1, whose sequence values are the
\* list positions, and with the list rule 2 at 5, rule 1 at 3, whose values are not.
SeqMembershipInputs ==
    { <<Member(1, 0), Member(2, 1)>>, <<Member(2, 5), Member(1, 3)>> }

SeqAddRuleGroup ==
    \E ms \in SeqMembershipInputs :
        add_rule_group(<<"Adults">>, <<"AND">>, None, TRUE, FALSE, ms)

SeqUpdateRuleGroup ==
    \E g \in GroupKeys, ms \in SeqMembershipInputs :
        update_rule_group(g, <<"Adults">>, <<"AND">>, None, TRUE, FALSE, ms)

NextSequence ==
    \/ SeqAddRuleGroup /\ Serial
    \/ SeqUpdateRuleGroup /\ Serial
    \/ GrpDeleteRuleGroup /\ Serial

SpecSequence == InitEmpty /\ [][NextSequence]_vars

\* ------------------- SpecConcurrent: two requests served statement by statement
\* Each request has its own connection (get_db) and each modify_db commits the one
\* statement it ran, so the statements of two requests served side by side interleave
\* in any order.  A step below is one statement of one handler, or its response.
store == <<functions, funcParams, fields, rules, ruleLines, lineParams,
           ruleGroups, groupRules>>

Running(q) == inflight[q].pc \notin {"idle", "done"}

\* Worker q is serving a request of handler op on row id.
SameRow(q, op, id) == Running(q) /\ inflight[q].op = op /\ inflight[q].id = id

\* The locals of worker p become rec; the other workers keep theirs.
Locals(p, rec) == inflight' = [inflight EXCEPT ![p] = rec]

\* request.json is read and validated: the request passes the required-field checks
\* and stands before its first statement.
Receive(p, op, pc, id, function_id, list, before) ==
    /\ inflight[p].pc = "idle"
    /\ inflight' = [q \in Procs |->
          IF q = p
          THEN [Idle EXCEPT !.op = op, !.pc = pc, !.id = id,
                            !.function_id = function_id, !.list = list, !.next = 1,
                            !.before = before,
                            !.overlapped = \E r \in Procs \ {p} : SameRow(r, op, id)]
          ELSE IF SameRow(q, op, id) THEN [inflight[q] EXCEPT !.overlapped = TRUE]
          ELSE inflight[q]]
    /\ UNCHANGED <<store, response, audit, refused>>

\* jsonify(...): the handler answers and its worker is done.
Return(p, resp) ==
    /\ response' = resp
    /\ Locals(p, [inflight[p] EXCEPT !.pc = "done"])
    /\ UNCHANGED <<store, audit, refused>>

\* ---- update_rule_group, one statement at a time
urg_receive(p, grg_id, rule_list) ==
    /\ Truthy(grg_id)
    /\ Receive(p, "update_rule_group", "update", grg_id, None, rule_list, << >>)

urg_update(p) ==
    /\ inflight[p].op = "update_rule_group" /\ inflight[p].pc = "update"
    /\ ruleGroups' = [k \in DOMAIN ruleGroups |->
                        IF k = inflight[p].id
                        THEN GroupRow(<<"Adults">>, <<"AND">>, None, TRUE, FALSE)
                        ELSE ruleGroups[k]]
    /\ Locals(p, [inflight[p] EXCEPT !.pc = "delete"])
    /\ UNCHANGED <<catalog, rules, ruleLines, lineParams, groupRules, response,
                   audit, refused>>

\* update_rule_group whose DELETE removes nothing.
urg_delete_KeepsRows(p) ==
    /\ inflight[p].op = "update_rule_group" /\ inflight[p].pc = "delete"
    /\ Locals(p, [inflight[p] EXCEPT !.pc = "insert"])
    /\ UNCHANGED <<store, response, audit, refused>>

urg_delete(p) ==
    /\ inflight[p].op = "update_rule_group" /\ inflight[p].pc = "delete"
    /\ groupRules' = [groupRules EXCEPT ![inflight[p].id] = << >>]
    /\ Locals(p, [inflight[p] EXCEPT !.pc = "insert"])
    /\ UNCHANGED <<catalog, rules, ruleLines, lineParams, ruleGroups, response,
                   audit, refused>>

urg_insert(p) ==
    /\ inflight[p].op = "update_rule_group" /\ inflight[p].pc = "insert"
    /\ inflight[p].next <= Len(inflight[p].list)
    /\ groupRules' = [groupRules EXCEPT ![inflight[p].id] =
                         Append(@, MembershipRows(inflight[p].list)[inflight[p].next])]
    /\ Locals(p, [inflight[p] EXCEPT !.next = @ + 1])
    /\ UNCHANGED <<catalog, rules, ruleLines, lineParams, ruleGroups, response,
                   audit, refused>>

urg_return(p) ==
    /\ inflight[p].op = "update_rule_group" /\ inflight[p].pc = "insert"
    /\ inflight[p].next > Len(inflight[p].list)
    /\ Return(p, Resp("update_rule_group", 200, TRUE,
                      "Rule group updated successfully", inflight[p].id))

\* ---- update_rule_line, one statement at a time
url_receive(p, line_id, function_id, parameters) ==
    /\ Truthy(line_id) /\ Truthy(function_id)
    /\ Receive(p, "update_rule_line", "update", line_id, function_id, parameters,
               IF line_id \in DOMAIN ruleLines
               THEN <<ruleLines[line_id].FUNCTION_ID, lineParams[line_id]>>
               ELSE <<None, lineParams[line_id]>>)

url_update(p) ==
    /\ inflight[p].op = "update_rule_line" /\ inflight[p].pc = "update"
    /\ ruleLines' = [k \in DOMAIN ruleLines |->
                       IF k = inflight[p].id
                       THEN [ruleLines[k] EXCEPT !.FUNCTION_ID = inflight[p].function_id,
                                                 !.SEQUENCE_NUM = 0]
                       ELSE ruleLines[k]]
    /\ Locals(p, [inflight[p] EXCEPT !.pc = "delete"])
    /\ UNCHANGED <<catalog, rules, lineParams, groups, response, audit, refused>>

url_delete(p) ==
    /\ inflight[p].op = "update_rule_line" /\ inflight[p].pc = "delete"
    /\ lineParams' = [lineParams EXCEPT ![inflight[p].id] = << >>]
    /\ Locals(p, [inflight[p] EXCEPT !.pc = "insert"])
    /\ UNCHANGED <<catalog, rules, ruleLines, groups, response, audit, refused>>

url_insert(p) ==
    /\ inflight[p].op = "update_rule_line" /\ inflight[p].pc = "insert"
    /\ inflight[p].next <= Len(inflight[p].list)
    /\ lineParams' = [lineParams EXCEPT ![inflight[p].id] =
                         Append(@, ParamRows(inflight[p].list)[inflight[p].next])]
    /\ Locals(p, [inflight[p] EXCEPT !.next = @ + 1])
    /\ UNCHANGED <<catalog, rules, ruleLines, groups, response, audit, refused>>

url_return(p) ==
    /\ inflight[p].op = "update_rule_line" /\ inflight[p].pc = "insert"
    /\ inflight[p].next > Len(inflight[p].list)
    /\ Return(p, Resp("update_rule_line", 200, TRUE,
                      "Rule line updated successfully", inflight[p].id))

\* ---- add_rule_line, one statement at a time
arl_receive(p, rule_id, function_id, parameters) ==
    /\ Truthy(rule_id) /\ Truthy(function_id)
    /\ Receive(p, "add_rule_line", "insert_line", rule_id, function_id, parameters,
               << >>)

\* INSERT INTO GEE_RULE_LINES; from here on id holds cursor.lastrowid, the new line.
arl_insert_line(p) ==
    LET line_id == LastRowId(ruleLines) IN
    /\ inflight[p].op = "add_rule_line" /\ inflight[p].pc = "insert_line"
    /\ line_id <= MaxLineId
    /\ ruleLines' = [k \in (DOMAIN ruleLines) \cup {line_id} |->
                       IF k = line_id
                       THEN [RULE_ID |-> inflight[p].id,
                             FUNCTION_ID |-> inflight[p].function_id,
                             IS_CONDITION |-> 0, SEQUENCE_NUM |-> 0]
                       ELSE ruleLines[k]]
    /\ Locals(p, [inflight[p] EXCEPT !.pc = "insert", !.id = line_id])
    /\ UNCHANGED <<catalog, rules, lineParams, groups, response, audit, refused>>

arl_insert(p) ==
    /\ inflight[p].op = "add_rule_line" /\ inflight[p].pc = "insert"
    /\ inflight[p].next <= Len(inflight[p].list)
    /\ lineParams' = [lineParams EXCEPT ![inflight[p].id] =
                         Append(@, ParamRows(inflight[p].list)[inflight[p].next])]
    /\ Locals(p, [inflight[p] EXCEPT !.next = @ + 1])
    /\ UNCHANGED <<catalog, rules, ruleLines, groups, response, audit, refused>>

arl_return(p) ==
    /\ inflight[p].op = "add_rule_line" /\ inflight[p].pc = "insert"
    /\ inflight[p].next > Len(inflight[p].list)
    /\ Return(p, Resp("add_rule_line", 200, TRUE,
                      "Rule line added successfully", inflight[p].id))

\* ---- delete_function, one statement at a time
df_receive(p, function_id) ==
    Receive(p, "delete_function", "count", function_id, function_id, << >>, << >>)

\* SELECT COUNT(*) ... WHERE FUNCTION_ID = ?: the count is held in rule_lines.
df_count(p) ==
    /\ inflight[p].op = "delete_function" /\ inflight[p].pc = "count"
    /\ Locals(p, [inflight[p] EXCEPT !.pc = "guard",
                                     !.count = FunctionUsages(inflight[p].id)])
    /\ UNCHANGED <<store, response, audit, refused>>

df_refuse(p) ==
    /\ inflight[p].op = "delete_function" /\ inflight[p].pc = "guard"
    /\ inflight[p].count > 0
    /\ Return(p, Resp("delete_function", 200, FALSE,
                "Cannot delete function: It is being used in one or more rules",
                inflight[p].id))

\* delete_function that goes on to its DELETEs whatever count it read.
df_delete_params_Unguarded(p) ==
    /\ inflight[p].op = "delete_function" /\ inflight[p].pc = "guard"
    /\ funcParams' = SelectSeq(funcParams, LAMBDA r : r.GBF_ID # inflight[p].id)
    /\ Locals(p, [inflight[p] EXCEPT !.pc = "delete"])
    /\ UNCHANGED <<functions, fields, rules, ruleLines, lineParams, groups, response,
                   audit, refused>>

df_delete_params(p) ==
    /\ inflight[p].op = "delete_function" /\ inflight[p].pc = "guard"
    /\ inflight[p].count = 0
    /\ funcParams' = SelectSeq(funcParams, LAMBDA r : r.GBF_ID # inflight[p].id)
    /\ Locals(p, [inflight[p] EXCEPT !.pc = "delete"])
    /\ UNCHANGED <<functions, fields, rules, ruleLines, lineParams, groups, response,
                   audit, refused>>

\* DELETE FROM GEE_BASE_FUNCTIONS; raced records whether a rule line referenced the
\* function at that moment.
df_delete(p) ==
    /\ inflight[p].op = "delete_function" /\ inflight[p].pc = "delete"
    /\ functions' = Without(functions, {inflight[p].id})
    /\ Locals(p, [inflight[p] EXCEPT !.pc = "return",
                                     !.raced = FunctionUsages(inflight[p].id) > 0])
    /\ UNCHANGED <<funcParams, fields, rules, ruleLines, lineParams, groups, response,
                   audit, refused>>

df_return(p) ==
    /\ inflight[p].op = "delete_function" /\ inflight[p].pc = "return"
    /\ Return(p, Resp("delete_function", 200, TRUE,
                      "Function deleted successfully!", inflight[p].id))

\* The store when the two requests arrive: line 1 of rule 1 calls isAdult on the age
\* field, group 1 lists rule 1, and approve is used by no line.
InitConcurrent ==
    /\ functions = (1 :> FuncIsAdult) @@ (2 :> FuncApprove)
    /\ funcParams = << [GBF_ID |-> 1, GBF_SEQ |-> 0, PARAM_TYPE |-> <<"INTEGER">>],
                       [GBF_ID |-> 2, GBF_SEQ |-> 0, PARAM_TYPE |-> <<"STRING">>] >>
    /\ fields = (1 :> FieldAge) @@ (2 :> FieldTier)
    /\ rules = (1 :> RuleCheckAge) @@ (2 :> RuleCheckTier)
    /\ ruleLines = (1 :> [RULE_ID |-> 1, FUNCTION_ID |-> 1, IS_CONDITION |-> 1,
                          SEQUENCE_NUM |-> 0])
    /\ lineParams = [l \in LineKeys |->
                        IF l = 1 THEN ParamRows(<<Param(1, NoneStr)>>) ELSE << >>]
    /\ ruleGroups = (1 :> GroupRow(<<"Adults">>, <<"AND">>, None, TRUE, FALSE))
    /\ groupRules = [g \in GroupKeys |->
                        IF g = 1 THEN MembershipRows(<<Member(1, 0)>>) ELSE << >>]
    /\ response = Resp("init", 200, TRUE, "", None)
    /\ audit = NoAudit
    /\ inflight = [p \in Procs |-> Idle]
    /\ refused = {}

\* What the two clients send: either rules list for group 1, either edit of line 1
\* (to approve with two parameters, or keeping isAdult with another field), a new
\* action line calling approve, the delete of either function.
ConMembershipInputs == {<<Member(1, 0), Member(2, 1)>>, <<Member(2, 0)>>}
ConEditInputs == {<<2, <<Param(None, <<"gold">>), Param(2, NoneStr)>>>>,
                  <<1, <<Param(2, NoneStr)>>>>}

ConReceive ==
    \E p \in Procs :
        \/ \E ms \in ConMembershipInputs : urg_receive(p, 1, ms)
        \/ \E e \in ConEditInputs : url_receive(p, 1, e[1], e[2])
        \/ arl_receive(p, 1, 2, <<Param(None, <<"gold">>)>>)
        \/ \E f \in DOMAIN functions : df_receive(p, f)

ConUpdateRuleGroup ==
    \E p \in Procs : urg_update(p) \/ urg_delete(p) \/ urg_insert(p) \/ urg_return(p)

ConUpdateRuleLine ==
    \E p \in Procs : url_update(p) \/ url_delete(p) \/ url_insert(p) \/ url_return(p)

ConAddRuleLine ==
    \E p \in Procs : arl_insert_line(p) \/ arl_insert(p) \/ arl_return(p)

ConDeleteFunction ==
    \E p \in Procs :
        \/ df_count(p)
        \/ df_refuse(p)
        \/ df_delete_params(p)
        \/ df_delete(p)
        \/ df_return(p)

NextConcurrent ==
    \/ ConReceive
    \/ ConUpdateRuleGroup
    \/ ConUpdateRuleLine
    \/ ConAddRuleLine
    \/ ConDeleteFunction

SpecConcurrent == InitConcurrent /\ [][NextConcurrent]_vars

\* ------------------------- SpecParents: rule groups with parents and both flags
\* Groups are created and edited with any parent reference a client may send (none,
\* or the id of group 1 or 2, stored or not) and any pair of isCondition/isAction
\* flags, and are deleted.
ParentInputs == {None, 1, 2}

PrtAddRuleGroup ==
    \E parent \in ParentInputs, c \in BOOLEAN, a \in BOOLEAN :
        add_rule_group(<<"Adults">>, <<"AND">>, parent, c, a, << >>)

PrtUpdateRuleGroup ==
    \E g \in GroupKeys, parent \in ParentInputs, c \in BOOLEAN, a \in BOOLEAN :
        update_rule_group(g, <<"Adults">>, <<"AND">>, parent, c, a, << >>)

NextParents ==
    \/ PrtAddRuleGroup /\ Serial
    \/ PrtUpdateRuleGroup /\ Serial
    \/ GrpDeleteRuleGroup /\ Serial

SpecParents == InitEmpty /\ [][NextParents]_vars

\* ------------------------------ SpecFields: the field catalog under the lines
\* Fields are added under names not in use and deleted; condition lines of rule 1
\* calling isAdult are added and edited with one field parameter, whose field id is
\* any id a client may send; the rule's code is generated.
FieldKeys == 1 .. MaxFieldId

FldAddField ==
    \E n \in {<<"score">>, <<"city">>} :
        /\ \A k \in DOMAIN fields : fields[k].GF_NAME # n
        /\ add_field(n, <<"INTEGER">>)

FldDeleteField == \E k \in FieldKeys : delete_field(k)

FldAddRuleLine == \E k \in FieldKeys : add_rule_line(1, 1, TRUE, 0, <<Param(k, NoneStr)>>)

FldUpdateRuleLine ==
    \E l \in DOMAIN ruleLines, k \in FieldKeys :
        update_rule_line(l, 1, 0, <<Param(k, NoneStr)>>)

FldGenerateCode == generate_code(1)

NextFields ==
    \/ FldAddField /\ Serial
    \/ FldDeleteField /\ Serial
    \/ FldAddRuleLine /\ Serial
    \/ FldUpdateRuleLine /\ Serial
    \/ FldGenerateCode /\ Serial

SpecFields == Init /\ [][NextFields]_vars

\* ======================================================= reading the output
\* text.split(tok) for a non-empty text.
RECURSIVE SplitOn(_, _)
SplitOn(text, tok) ==
    IF \A i \in 1 .. Len(text) : text[i] # tok THEN <<text>>
    ELSE LET i == CHOOSE j \in 1 .. Len(text) :
                      /\ text[j] = tok
                      /\ \A k \in 1 .. j - 1 : text[k] # tok
         IN <<SubSeq(text, 1, i - 1)>> \o SplitOn(SubSeq(text, i + 1, Len(text)), tok)

\* The statements of a block, one per line of text.
Statements(code) == IF code = EmptyStr THEN << >> ELSE SplitOn(code, "\n")

\* The arguments of the statement  name ( arg , ... , arg );
Arguments(stmt) ==
    LET inner == SubSeq(stmt, 3, Len(stmt) - 1) IN
    IF inner = EmptyStr THEN << >> ELSE SplitOn(inner, ", ")

Generated == response.op = "generate_code" /\ response.status = 200

\* The stored lines of a rule in one phase, whether their function exists or not.
StoredLines(rule_id, phase) ==
    {l \in DOMAIN ruleLines : /\ ruleLines[l].RULE_ID = rule_id
                              /\ ruleLines[l].IS_CONDITION = phase}

\* The enumerations of a finite set, each element once.
Enumerations(S) ==
    {e \in [1 .. Cardinality(S) -> S] : \A i, j \in DOMAIN e : i # j => e[i] # e[j]}

\* code is one statement per line of L, in an order of ascending sequence numbers.
RendersInOrder(code, L) ==
    LET stmts == Statements(code) IN
    /\ Len(stmts) = Cardinality(L)
    /\ \E e \in Enumerations(L) :
          /\ \A i \in 1 .. Len(e) - 1 :
                ruleLines[e[i]].SEQUENCE_NUM <= ruleLines[e[i + 1]].SEQUENCE_NUM
          /\ \A i \in 1 .. Len(e) :
                /\ ruleLines[e[i]].FUNCTION_ID \in DOMAIN functions
                /\ stmts[i] = FuncCall(e[i])

\* The lines the generator rendered into one block, in the order it rendered them.
RenderedLines(rule_id, phase) ==
    SelectSeq(LinesQuery(rule_id), LAMBDA l : ruleLines[l].IS_CONDITION = phase)

BlockOf(phase) == IF phase = 1 THEN response.conditionCode ELSE response.actionCode

\* P(line, param, arg) holds of every parameter row the last generate_code rendered,
\* arg being the argument text found at its place in the output.
EveryRenderedParam(P(_, _, _)) ==
    Generated =>
        \A phase \in {0, 1} :
            LET ls == RenderedLines(response.id, phase)
                stmts == Statements(BlockOf(phase))
            IN /\ Len(stmts) = Len(ls)
               /\ \A k \in 1 .. Len(ls) :
                     LET params == ParamsQuery(ls[k])
                         args == Arguments(stmts[k])
                     IN /\ Len(args) = Len(params)
                        /\ \A i \in 1 .. Len(params) : P(ls[k], params[i], args[i])

SomeRenderedParam(P(_, _)) ==
    /\ Generated
    /\ \E phase \in {0, 1} :
          \E k \in 1 .. Len(RenderedLines(response.id, phase)) :
              LET l == RenderedLines(response.id, phase)[k]
                  params == ParamsQuery(l)
              IN \E i \in 1 .. Len(params) : P(l, params[i])

\* ================================================================== claims
\* C1: whenever generate_code returns code for a rule, conditionCode holds one
\* statement per stored condition line of the rule, in ascending sequence order, and
\* actionCode one statement per stored action line, in ascending sequence order; no
\* line contributes to the block of the other phase.
C1_OneStatementPerLineInOrder ==
    Generated =>
        /\ RendersInOrder(response.conditionCode, StoredLines(response.id, 1))
        /\ RendersInOrder(response.actionCode, StoredLines(response.id, 0))

\* The part of C1 the code keeps: the same, over the lines whose function exists.
ResolvableLinesRenderInOrder ==
    Generated =>
        \A phase \in {0, 1} :
            RendersInOrder(BlockOf(phase),
                           {l \in StoredLines(response.id, phase) :
                               ruleLines[l].FUNCTION_ID \in DOMAIN functions})

\* PARAM_TYPE of the parameter a function declares at a position, NoneStr if none.
DeclaredType(function_id, index) ==
    LET decl == SelectSeq(funcParams,
                          LAMBDA d : d.GBF_ID = function_id /\ d.GBF_SEQ = index)
    IN IF decl = << >> THEN NoneStr ELSE decl[1].PARAM_TYPE

\* The type a literal is rendered against: that of the joined field if there is one,
\* else that of the parameter the called function declares at the position.
TypeContext(line, param) ==
    IF param.GF_TYPE # NoneStr THEN param.GF_TYPE
    ELSE DeclaredType(ruleLines[line].FUNCTION_ID, param.PARAM_INDEX)

RenderedFromLiteral(param) == ~Truthy(param.FIELD_ID) /\ param.LITERAL_VALUE # NoneStr

\* C2: in the code generate_code returns, a parameter rendered from its literal against
\* the type STRING appears as the literal between single quotes (approve('gold')).
C2_StringLiteralQuoted ==
    EveryRenderedParam(LAMBDA line, param, arg :
        (RenderedFromLiteral(param) /\ TypeContext(line, param) = <<"STRING">>)
            => arg = <<"'">> \o param.LITERAL_VALUE \o <<"'">>)

\* C3: in the code generate_code returns, a parameter that carries a field reference
\* appears as fields.<name of the referenced field>, whatever its literal is.
C3_FieldReferenceRendersFieldAccess ==
    EveryRenderedParam(LAMBDA line, param, arg :
        param.FIELD_ID # None
            => /\ param.FIELD_ID \in DOMAIN fields
               /\ arg = <<"fields.">> \o fields[param.FIELD_ID].GF_NAME)

\* The part of C2 the code keeps: GF_TYPE is joined on FIELD_ID, so it is NULL whenever
\* the literal is what gets rendered, and no quote is ever written.
LiteralsNeverQuoted ==
    Generated =>
        \A phase \in {0, 1} :
            \A i \in 1 .. Len(BlockOf(phase)) : BlockOf(phase)[i] # "'"

\* The part of C3 the code keeps: the same, over the references to stored fields.
StoredFieldReferenceRendersFieldAccess ==
    EveryRenderedParam(LAMBDA line, param, arg :
        param.FIELD_ID \in DOMAIN fields
            => arg = <<"fields.">> \o fields[param.FIELD_ID].GF_NAME)

\* C4: in the code generate_code returns, a parameter with a literal and no field
\* reference appears as the literal itself, without quotes.
C4_BareLiteralVerbatim ==
    EveryRenderedParam(LAMBDA line, param, arg :
        (param.FIELD_ID = None /\ param.LITERAL_VALUE # NoneStr)
            => arg = param.LITERAL_VALUE)

\* C4 witness: code was returned for a rule with a line whose second parameter is the
\* bare literal 42, and for one whose parameter is the bare literal gold.
C4_Witness ==
    SomeRenderedParam(LAMBDA line, param :
        /\ param.FIELD_ID = None
        /\ param.LITERAL_VALUE = <<"42">>
        /\ param.PARAM_INDEX = 1)

\* C5: when generate_code returns code, the block of a phase in which the rule stores
\* no line is the empty string; a rule without lines gets two empty strings.
C5_EmptyPhaseIsEmptyString ==
    Generated =>
        /\ StoredLines(response.id, 1) = {} => response.conditionCode = EmptyStr
        /\ StoredLines(response.id, 0) = {} => response.actionCode = EmptyStr

\* C5 witness: code was returned for a rule that has condition lines and no action
\* line; its condition block is not empty.
C5_Witness ==
    /\ Generated
    /\ StoredLines(response.id, 1) # {}
    /\ StoredLines(response.id, 0) = {}
    /\ response.conditionCode # EmptyStr
    /\ response.actionCode = EmptyStr

C7_DeleteRuleLineCascades ==
    [][\A l \in LineKeys :
          delete_rule_line(l)
              => /\ l \notin DOMAIN ruleLines'
                 /\ lineParams'[l] = << >>
                 /\ DOMAIN ruleLines' = (DOMAIN ruleLines) \ {l}
                 /\ \A k \in DOMAIN ruleLines' : ruleLines'[k] = ruleLines[k]
                 /\ \A k \in LineKeys \ {l} : lineParams'[k] = lineParams[k]]_vars

\* C7 witness: a stored line with parameter rows was deleted while another line with
\* parameter rows is stored.
C7_Witness ==
    /\ response.op = "delete_rule_line"
    /\ audit.removedLines = {response.id}
    /\ audit.removedParams > 0
    /\ \E k \in DOMAIN ruleLines : lineParams[k] # << >>

\* The result the spec calls Conflict: a refusal naming what still uses the entity.
IsConflict(resp) ==
    /\ ~resp.success
    /\ resp.message \in {"Cannot delete function: It is being used in one or more rules",
                         "Cannot delete rule: It is being used in rule groups"}

\* C8: delete_function(f) with a rule line referencing f answers Conflict and deletes
\* nothing: functions, declared parameters, rule lines and their parameters stay.
C8_DeleteFunctionGuarded ==
    [][\A f \in FunctionKeys :
          (delete_function(f) /\ \E l \in DOMAIN ruleLines : ruleLines[l].FUNCTION_ID = f)
              => /\ IsConflict(response')
                 /\ functions' = functions
                 /\ funcParams' = funcParams
                 /\ ruleLines' = ruleLines
                 /\ lineParams' = lineParams]_vars

\* C8 witness: the deletion of a stored function that declares a parameter and is
\* called by a rule line was refused.
C8_Witness ==
    /\ response.op = "delete_function"
    /\ IsConflict(response)
    /\ response.id \in DOMAIN functions
    /\ \E i \in 1 .. Len(funcParams) : funcParams[i].GBF_ID = response.id
    /\ \E l \in DOMAIN ruleLines : ruleLines[l].FUNCTION_ID = response.id

\* C9: delete_rule(r) with a membership row referencing r is refused and leaves rules,
\* rule lines and parameters as they were; delete_rule of an id that is no stored rule
\* answers 404 and changes nothing.
C9_DeleteRuleGuarded ==
    [][\A r \in RuleKeys :
          delete_rule(r)
              => /\ RuleUsages(r) > 0
                     => /\ ~response'.success
                        /\ rules' = rules
                        /\ ruleLines' = ruleLines
                        /\ lineParams' = lineParams
                 /\ r \notin DOMAIN rules
                     => /\ response'.status = 404
                        /\ UNCHANGED <<catalog, rules, ruleLines, lineParams, groups>>]_vars

\* C9 witness: the deletion of a stored rule that has a line with parameters and is a
\* member of a group was refused as in use.
C9_Witness ==
    /\ response.op = "delete_rule"
    /\ IsConflict(response)
    /\ response.id \in DOMAIN rules
    /\ \E l \in DOMAIN ruleLines :
          ruleLines[l].RULE_ID = response.id /\ lineParams[l] # << >>
    /\ RuleUsages(response.id) > 0

\* C10: after a successful update_rule_group(g, rules) the membership rows of g are the
\* supplied entries, one row each and nothing else, and the membership rows of every
\* other group are as they were.
C10_UpdateRuleGroupReplaces ==
    [][\A g \in GroupKeys, ms \in MembershipInputs :
          update_rule_group(g, <<"Adults">>, <<"AND">>, None, TRUE, FALSE, ms)
              => /\ Len(groupRules'[g]) = Len(ms)
                 /\ \A i \in 1 .. Len(ms) :
                       /\ groupRules'[g][i].RULE_ID = ms[i].id
                       /\ groupRules'[g][i].SEQUENCE = ms[i].sequence
                 /\ \A h \in GroupKeys \ {g} : groupRules'[h] = groupRules[h]]_vars

\* C10 witness: a stored group whose two membership rows were replaced now has the
\* single row of rule 2 at 0, while another group still has members.
C10_Witness ==
    /\ response.op = "update_rule_group"
    /\ response.success
    /\ response.id \in DOMAIN ruleGroups
    /\ audit.removedMembers = 2
    /\ groupRules[response.id] = <<[RULE_ID |-> 2, SEQUENCE |-> 0]>>
    /\ \E h \in GroupKeys \ {response.id} : Len(groupRules[h]) = 2

\* The parameter rows of a line are the supplied list: one row per entry, in list order,
\* with the position indices 0 .. n-1.
IsBatch(rows, parameters) ==
    /\ Len(rows) = Len(parameters)
    /\ \A i \in 1 .. Len(parameters) :
          /\ rows[i].PARAM_INDEX = i - 1
          /\ rows[i].FIELD_ID = parameters[i].fieldId
          /\ rows[i].LITERAL_VALUE = parameters[i].literalValue

\* C11: after a successful add_rule_line the parameter rows of the new line are the
\* supplied list with indices 0 .. n-1, after a successful update_rule_line of a line
\* its parameter rows are the supplied list and none of the rows it had, and neither
\* touches the parameter rows of another line.
C11_ParametersAreLastWrite ==
    [][/\ \A r \in LinRuleIdInputs, f \in LinFunctionIdInputs, ps \in LinParameterInputs :
             (Truthy(r) /\ Truthy(f) /\ add_rule_line(r, f, TRUE, 0, ps))
                 => /\ IsBatch(lineParams'[response'.id], ps)
                    /\ \A k \in LineKeys \ {response'.id} : lineParams'[k] = lineParams[k]
       /\ \A l \in LineKeys, f \in LinFunctionIdInputs, ps \in LinParameterInputs :
             (Truthy(f) /\ update_rule_line(l, f, 0, ps))
                 => /\ IsBatch(lineParams'[l], ps)
                    /\ \A k \in LineKeys \ {l} : lineParams'[k] = lineParams[k]]_vars

\* C12: add_rule_line without a rule id or without a function id, and update_rule_line
\* without a line id or without a function id, answer 400 without success and leave
\* the rule lines and the parameter rows as they were.
C12_MissingIdRejected ==
    [][/\ \A r \in LinRuleIdInputs, f \in LinFunctionIdInputs, ps \in LinParameterInputs :
             ((r = None \/ f = None) /\ add_rule_line(r, f, TRUE, 0, ps))
                 => /\ response'.status = 400
                    /\ ~response'.success
                    /\ ruleLines' = ruleLines
                    /\ lineParams' = lineParams
       /\ \A l \in LinLineIdInputs, f \in LinFunctionIdInputs, ps \in LinParameterInputs :
             ((l = None \/ f = None) /\ update_rule_line(l, f, 0, ps))
                 => /\ response'.status = 400
                    /\ ~response'.success
                    /\ ruleLines' = ruleLines
                    /\ lineParams' = lineParams]_vars

\* C12 witness: an add_rule_line was rejected as incomplete while a line with parameter
\* rows is stored.
C12_Witness ==
    /\ response.op = "add_rule_line"
    /\ response.status = 400
    /\ \E l \in DOMAIN ruleLines : lineParams[l] # << >>

\* C13: when the rule generate_code was asked for stores a line whose function does not
\* exist, the answer is an error that carries no code.
C13_DanglingFunctionIsError ==
    (/\ response.op = "generate_code"
     /\ \E l \in DOMAIN ruleLines :
           /\ ruleLines[l].RULE_ID = response.id
           /\ ruleLines[l].FUNCTION_ID \notin DOMAIN functions)
        => /\ response.status # 200
           /\ response.conditionCode = NoneStr
           /\ response.actionCode = NoneStr

\* C14: add_rule_line naming a function that is not stored answers 404 without success
\* and inserts no rule line and no parameter row.
C14_AddRuleLineChecksReferences ==
    [][\A f \in FunctionIdInputs, c \in BOOLEAN, s \in SequenceInputs,
          ps \in ParameterInputs :
          (f \notin DOMAIN functions /\ add_rule_line(1, f, c, s, ps))
              => /\ response'.status = 404
                 /\ ~response'.success
                 /\ ruleLines' = ruleLines
                 /\ lineParams' = lineParams]_vars

\* C15: the function every stored rule line references is a stored function.
C15_LineFunctionExists ==
    \A l \in DOMAIN ruleLines : ruleLines[l].FUNCTION_ID \in DOMAIN functions

\* C16: every stored parameter row is owned by a stored rule line.
C16_NoOrphanParameters ==
    \A l \in LineKeys : lineParams[l] # << >> => l \in DOMAIN ruleLines

\* A source column never written (NULL) reads as the empty source.
StoredSource(code) == IF code = NoneStr THEN EmptyStr ELSE code

\* C17: for every stored rule whose lines generate code, the CONDITION_CODE and
\* ACTION_CODE stored on the rule are the conditionCode and actionCode generate_code
\* returns for it.
C17_StoredSourceIsGeneratedCode ==
    \A r \in DOMAIN rules :
        GenerateCode(r).status = 200
            => /\ StoredSource(rules[r].CONDITION_CODE) = GenerateCode(r).conditionCode
               /\ StoredSource(rules[r].ACTION_CODE) = GenerateCode(r).actionCode

\* C18: no two stored lines of one rule and one phase carry the same sequence number.
C18_SequenceUniquePerPhase ==
    \A a, b \in DOMAIN ruleLines :
        (/\ a # b
         /\ ruleLines[a].RULE_ID = ruleLines[b].RULE_ID
         /\ ruleLines[a].IS_CONDITION = ruleLines[b].IS_CONDITION)
            => ruleLines[a].SEQUENCE_NUM # ruleLines[b].SEQUENCE_NUM

\* C19: after a successful add_rule_group or update_rule_group the i-th membership row
\* of the group, counting from 0, is stored with sequence number i.
C19_SequenceIsListPosition ==
    (response.op \in {"add_rule_group", "update_rule_group"} /\ response.success)
        => \A i \in 1 .. Len(groupRules[response.id]) :
              groupRules[response.id][i].SEQUENCE = i - 1

\* C20: generate_code leaves every table as it was, whether it answers code or an error.
C20_GenerateCodeReadsOnly ==
    [][\A r \in RuleIdInputs :
          generate_code(r)
              => UNCHANGED <<functions, funcParams, fields, rules, ruleLines,
                             lineParams, ruleGroups, groupRules>>]_vars

\* C20 witness: generate_code answered an error for a rule that stores lines with
\* parameter rows.
C20_Witness ==
    /\ response.op = "generate_code"
    /\ response.status = 500
    /\ \E l \in DOMAIN ruleLines :
          ruleLines[l].RULE_ID = response.id /\ lineParams[l] # << >>

\* ------------------------------------------------ requests served side by side
\* The rows a finished or running update wrote to, and the rows its list stands for.
StoredFor(p) ==
    IF inflight[p].op = "update_rule_group" THEN groupRules[inflight[p].id]
    ELSE lineParams[inflight[p].id]

Submitted(p) ==
    IF inflight[p].op = "update_rule_group" THEN MembershipRows(inflight[p].list)
    ELSE ParamRows(inflight[p].list)

\* Both workers have answered an update of handler op on the same row.
BothUpdated(op) ==
    /\ \A p \in Procs : inflight[p].op = op /\ inflight[p].pc = "done"
    /\ inflight[1].id = inflight[2].id

\* C21: two update_rule_group calls on one group (or two update_rule_line calls on one
\* line) that each run DELETE-all and then one INSERT per entry, every statement
\* committed on its own, can end with rows that are neither caller's list; this
\* happens only when the two calls overlapped, and served one after the other they
\* leave one caller's list.  The witness is the overlapped run that ends in the union
\* of both lists.
C21_LostListOnlyWhenOverlapped ==
    \A op \in {"update_rule_group", "update_rule_line"} :
        (BothUpdated(op) /\ StoredFor(1) \notin {Submitted(1), Submitted(2)})
            => (inflight[1].overlapped /\ inflight[2].overlapped)

C21_Witness ==
    /\ BothUpdated("update_rule_group")
    /\ groupRules[inflight[1].id] \notin {Submitted(1), Submitted(2)}
    /\ Len(groupRules[inflight[1].id]) = Len(Submitted(1)) + Len(Submitted(2))
    /\ \E i, j \in DOMAIN groupRules[inflight[1].id] :
          i # j /\ groupRules[inflight[1].id][i].SEQUENCE
                      = groupRules[inflight[1].id][j].SEQUENCE

\* C22: while a single update_rule_line is being served, a reader of the store finds,
\* for the line, the function and the full parameter list from before the update or
\* those from after it.
C22_UpdateRuleLineAtomicToReaders ==
    \A p \in Procs :
        (/\ inflight[p].op = "update_rule_line"
         /\ Running(p)
         /\ ~inflight[p].overlapped
         /\ inflight[p].id \in DOMAIN ruleLines)
            => <<ruleLines[inflight[p].id].FUNCTION_ID, lineParams[inflight[p].id]>>
                   \in {inflight[p].before,
                        <<inflight[p].function_id, ParamRows(inflight[p].list)>>}

\* C23: delete_function runs its DELETEs only after it has read a usage count of zero,
\* and nothing ties the read to the DELETEs: a reference stored between them leaves
\* the function gone while a rule line references it.  The witness is that run.
C23_DeleteFollowsZeroCount ==
    \A p \in Procs :
        (inflight[p].op = "delete_function" /\ inflight[p].pc \in {"delete", "return"})
            => inflight[p].count = 0

C23_Witness ==
    \E p \in Procs :
        /\ inflight[p].op = "delete_function" /\ inflight[p].pc = "done"
        /\ inflight[p].count = 0
        /\ inflight[p].raced
        /\ inflight[p].id \notin DOMAIN functions
        /\ \E l \in DOMAIN ruleLines : ruleLines[l].FUNCTION_ID = inflight[p].id

\* ------------------------------------------------------- the group hierarchy
\* The parent reference stored for a group; None for no group and for a group that
\* is not stored.
ParentOf(g) == IF g \in DOMAIN ruleGroups THEN ruleGroups[g].GRG_ID_PARENT ELSE None

\* The group reached from g by following n parent references.
RECURSIVE Climb(_, _)
Climb(g, n) == IF n = 0 THEN g ELSE ParentOf(Climb(g, n - 1))

\* C24: following parent references from a stored rule group never returns to that
\* group.
C24_NoParentCycle ==
    \A g \in DOMAIN ruleGroups : \A n \in 1 .. MaxGroupId : Climb(g, n) # g

\* ------------------------------- SpecRetry: deletes refused, then tried again
\* isAdult (function 1) is used by lines of rule 1, which are added, re-pointed to
\* approve and deleted; rule 2 is listed by groups, which are added, given a rules
\* list without it and deleted.  Function 1 and rule 2 are the entities whose
\* delete is tried at any moment.  Every refusal is remembered.
Remember ==
    /\ refused' = IF IsConflict(response')
                  THEN refused \cup {<<response'.op, response'.id>>}
                  ELSE refused
    /\ UNCHANGED inflight

RtyDeleteFunction == delete_function(1)

RtyAddRuleLine == add_rule_line(1, 1, TRUE, 0, << >>)

RtyUpdateRuleLine == \E l \in DOMAIN ruleLines : update_rule_line(l, 2, 0, << >>)

RtyDeleteRule == delete_rule(2)

RtyAddRuleGroup ==
    add_rule_group(<<"Adults">>, <<"AND">>, None, TRUE, FALSE, <<Member(2, 0)>>)

RtyUpdateRuleGroup ==
    \E g \in DOMAIN ruleGroups :
        update_rule_group(g, <<"Adults">>, <<"AND">>, None, TRUE, FALSE, <<Member(1, 0)>>)

NextRetry ==
    \/ RtyDeleteFunction /\ Remember
    \/ RtyAddRuleLine /\ Remember
    \/ RtyUpdateRuleLine /\ Remember
    \/ DeleteRuleLine /\ Remember
    \/ RtyDeleteRule /\ Remember
    \/ RtyAddRuleGroup /\ Remember
    \/ RtyUpdateRuleGroup /\ Remember
    \/ GrpDeleteRuleGroup /\ Remember

SpecRetry == Init /\ [][NextRetry]_vars

\* C25: a delete_function(f) that was refused succeeds, removing f and its declared
\* parameters, when it is tried after every rule line referencing f was deleted or
\* re-pointed; a delete_rule(r) that was refused succeeds, removing r, when it is
\* tried after every group listing r was updated without it or deleted.
C25_RefusedDeleteSucceedsOnceUnused ==
    [][ /\ \A f \in DOMAIN functions :
            (/\ response'.op = "delete_function" /\ response'.id = f
             /\ <<"delete_function", f>> \in refused
             /\ FunctionUsages(f) = 0)
                => /\ response'.success
                   /\ f \notin DOMAIN functions'
                   /\ \A i \in DOMAIN funcParams' : funcParams'[i].GBF_ID # f
        /\ \A r \in DOMAIN rules :
            (/\ response'.op = "delete_rule" /\ response'.id = r
             /\ <<"delete_rule", r>> \in refused
             /\ RuleUsages(r) = 0)
                => /\ response'.success
                   /\ r \notin DOMAIN rules' ]_vars

\* Both deletes were refused once and both have gone through since: the function and
\* its declared parameter are gone, and the rule's delete has just succeeded.
C25_Witness ==
    /\ refused = {<<"delete_function", 1>>, <<"delete_rule", 2>>}
    /\ 1 \notin DOMAIN functions
    /\ \A i \in DOMAIN funcParams : funcParams[i].GBF_ID # 1
    /\ response.op = "delete_rule" /\ response.success /\ response.id = 2
    /\ 2 \notin DOMAIN rules

\* C26: every stored parameter that carries a field reference refers to a stored
\* field, so that no generated statement holds a field access without a field.
C26_FieldReferenceExists ==
    \A l \in LineKeys : \A i \in DOMAIN lineParams[l] :
        Truthy(lineParams[l][i].FIELD_ID) => lineParams[l][i].FIELD_ID \in DOMAIN fields

\* ------------------------------------------------------ add_rule_line repeated
\* Two stored lines that calls with identical arguments left: the same rule, function,
\* phase and sequence number, and the same parameter rows.
Twins(a, b) == a # b /\ ruleLines[a] = ruleLines[b] /\ lineParams[a] = lineParams[b]

\* The block of a phase holds some statement at two places.
RendersTwice(phase) ==
    LET stmts == Statements(BlockOf(phase)) IN
    \E i, j \in DOMAIN stmts : i # j /\ stmts[i] = stmts[j]

\* The first half of C27, which the code keeps: a successful add_rule_line stores one
\* more line under an id no stored line has, with the parameter rows of the request,
\* and leaves the stored lines and their parameter rows as they were.
AddRuleLineStoresNewLine ==
    [][\A f \in FunctionIdInputs, c \in BOOLEAN, q \in SequenceInputs,
          ps \in ParameterInputs :
          add_rule_line(1, f, c, q, ps)
              => /\ response'.id \notin DOMAIN ruleLines
                 /\ DOMAIN ruleLines' = (DOMAIN ruleLines) \cup {response'.id}
                 /\ lineParams'[response'.id] = ParamRows(ps)
                 /\ \A k \in DOMAIN ruleLines :
                       ruleLines'[k] = ruleLines[k] /\ lineParams'[k] = lineParams[k]]_vars

\* C27: add_rule_line called twice with identical arguments stores two lines (above),
\* and generate_code then returns the same statement twice in the block of their
\* phase.
C27_TwinLinesRenderTwice ==
    Generated =>
        \A a, b \in DOMAIN ruleLines :
            (Twins(a, b) /\ ruleLines[a].RULE_ID = response.id)
                => RendersTwice(ruleLines[a].IS_CONDITION)

\* The part of C27 the code keeps: the same, for twins whose function exists.
ResolvableTwinsRenderTwice ==
    Generated =>
        \A a, b \in DOMAIN ruleLines :
            (/\ Twins(a, b)
             /\ ruleLines[a].RULE_ID = response.id
             /\ ruleLines[a].FUNCTION_ID \in DOMAIN functions)
                => RendersTwice(ruleLines[a].IS_CONDITION)

\* C28: after a successful delete_rule(r) no stored line belongs to r and no parameter
\* row is left for a line that belonged to r, and every line of another rule is stored
\* as before with the parameter rows it had.
C28_DeleteRuleCascades ==
    [][\A r \in RuleKeys :
          (response'.op = "delete_rule" /\ response'.success /\ delete_rule(r))
              => /\ \A l \in DOMAIN ruleLines' : ruleLines'[l].RULE_ID # r
                 /\ \A l \in DOMAIN ruleLines :
                       IF ruleLines[l].RULE_ID = r
                       THEN lineParams'[l] = << >>
                       ELSE /\ l \in DOMAIN ruleLines'
                            /\ ruleLines'[l] = ruleLines[l]
                            /\ lineParams'[l] = lineParams[l]
                 /\ DOMAIN ruleLines' \subseteq DOMAIN ruleLines]_vars

\* C28 witness: a rule with a line and parameter rows was deleted while a line of
\* another rule, with parameter rows, is stored.
C28_Witness ==
    /\ response.op = "delete_rule" /\ response.success
    /\ audit.removedLines # {}
    /\ audit.removedParams > 0
    /\ \E l \in DOMAIN ruleLines :
          ruleLines[l].RULE_ID # response.id /\ lineParams[l] # << >>

\* C29: update_rule_line(l, f, q, ps) on a stored line l leaves the rule and the phase
\* flag of l as they were, stores no line and removes none, and leaves every other line
\* and the parameter rows of every other line as they were; the lines of every rule
\* stay in the phase they were in.
C29_UpdateRuleLineKeepsRuleAndPhase ==
    [][response'.op = "update_rule_line" =>
       \A l \in DOMAIN ruleLines, f \in FunctionIdInputs, q \in SequenceInputs,
          ps \in ParameterInputs :
          update_rule_line(l, f, q, ps)
              => /\ DOMAIN ruleLines' = DOMAIN ruleLines
                 /\ ruleLines'[l].RULE_ID = ruleLines[l].RULE_ID
                 /\ ruleLines'[l].IS_CONDITION = ruleLines[l].IS_CONDITION
                 /\ \A k \in (DOMAIN ruleLines) \ {l} : ruleLines'[k] = ruleLines[k]
                 /\ \A k \in LineKeys \ {l} : lineParams'[k] = lineParams[k]
                 /\ \A r \in RuleIdInputs, phase \in {0, 1} :
                       StoredLines(r, phase)' = StoredLines(r, phase)]_vars

\* C29 witness: an action line of a rule that also has a condition line was updated,
\* and is an action line still.
C29_Witness ==
    /\ response.op = "update_rule_line" /\ response.success
    /\ response.id \in DOMAIN ruleLines
    /\ ruleLines[response.id].IS_CONDITION = 0
    /\ \E k \in DOMAIN ruleLines :
          /\ ruleLines[k].RULE_ID = ruleLines[response.id].RULE_ID
          /\ ruleLines[k].IS_CONDITION = 1
          /\ lineParams[k] # << >>

\* C30: the condition-start and action-start values add_rule_group and
\* update_rule_group store are 1 where the isCondition (isAction) flag of the request
\* is set and 0 where it is not, whatever the parent of the group, and every stored
\* group holds 0 or 1 in them.
C30_StartColumnsAreFlags ==
    [][/\ \A g \in DOMAIN ruleGroups' :
             /\ ruleGroups'[g].COND_GRG_ID_START \in {0, 1}
             /\ ruleGroups'[g].ACT_GRG_ID_START \in {0, 1}
       /\ response'.op = "add_rule_group" =>
             \A parent \in ParentInputs, c \in BOOLEAN, a \in BOOLEAN :
                 add_rule_group(<<"Adults">>, <<"AND">>, parent, c, a, << >>)
                     => /\ ruleGroups'[response'.id].COND_GRG_ID_START = 1 <=> c
                        /\ ruleGroups'[response'.id].ACT_GRG_ID_START = 1 <=> a
       /\ (response'.op = "update_rule_group" /\ response'.id \in DOMAIN ruleGroups) =>
             \A parent \in ParentInputs, c \in BOOLEAN, a \in BOOLEAN :
                 update_rule_group(response'.id, <<"Adults">>, <<"AND">>, parent, c, a, << >>)
                     => /\ ruleGroups'[response'.id].COND_GRG_ID_START = 1 <=> c
                        /\ ruleGroups'[response'.id].ACT_GRG_ID_START = 1 <=> a]_vars

\* C30 witness: a group with a parent, created as a condition group and updated to an
\* action group, holds 0 and 1.
C30_Witness ==
    /\ response.op = "update_rule_group" /\ response.success
    /\ response.id \in DOMAIN ruleGroups
    /\ ruleGroups[response.id].GRG_ID_PARENT = 2
    /\ ruleGroups[response.id].COND_GRG_ID_START = 0
    /\ ruleGroups[response.id].ACT_GRG_ID_START = 1

====
